---- MODULE Spec2Model ----
(***************************************************************************)
(* The interaction controller of the Jarvis desktop client                 *)
(* (frontend/renderer.js).  The file holds two revisions of the renderer:  *)
(*   rev = "text"   lines 1-163   streaming text chat with an input lock   *)
(*   rev = "voice"  lines 165-426 voice polling loop, /chat, /speak, audio *)
(* One behaviour of the model is one run of one revision.  Every action    *)
(* is one run-to-completion step of the JavaScript event loop: a handler   *)
(* or the continuation of an async function up to its next await.          *)
(***************************************************************************)
EXTENDS Integers, Sequences, FiniteSets, TLC

\* ---------------------------------------------------------------- bounds
MaxSubmissions == 2   \* questions accepted in one run
MaxPollCycles  == 2   \* slots for poll cycles that passed the guard
MaxChunks      == 1   \* chunks delivered on one /stream_chat response
MaxStreamChunks == 3  \* chunks of a response body read by the loop on its own
MaxClock       == 1   \* largest value Date.now() returns, counted from page load

\* ------------------------------------------------------ program constants
MAX_CONCURRENT_POLLS == 1

SubIds    == 1..MaxSubmissions
PollIds   == 1..MaxPollCycles

\* Text is a sequence of characters; two characters are enough to tell
\* whitespace from content.
InputValues == {<<>>, <<" ">>, <<"a">>}
Chunks      == {<<"a">>}
NoText      == <<"null">>
Reasons     == {"network", "HTTP 500"}   \* err.message of a failed fetch

VARIABLES
  rev,              \* which revision of renderer.js is running
  currentSessionId, \* the clock value the session id was built from
  ui,               \* what updateUI and setInputLock write (see InitUI)
  chatVisible,      \* chatBox.classList.contains("visible")
  history,          \* children of chatHistoryContainer
  subs,             \* handleChatSubmission invocations, by order of acceptance
  currentMode,      \* voice revision: currentMode
  activePolls,      \* voice revision: activePolls
  polls,            \* voice revision: checkBackendStatus invocations in flight
  hasPermission,    \* voice revision: what requestMicrophonePermission gave
  pollTimerOn,      \* voice revision: setInterval was called
  audio,            \* ttsAudio: paused, playback in progress, handlers
  fallbackTimers,   \* voice revision: pending setTimeout(..., 3000) callbacks
  stream,           \* the reading loop of submitTextQuery, run on its own
  lastOp            \* the handler that ran last and the branch it took

vars == <<rev, currentSessionId, ui, chatVisible,
          history, subs, currentMode, activePolls, polls, hasPermission,
          pollTimerOn, audio, fallbackTimers, stream, lastOp>>

\* what is fixed when the page has loaded: no handler writes these
setupVars == <<rev, hasPermission, stream>>

\* the variables only the voice revision writes
voiceVars == <<currentMode, activePolls, polls, pollTimerOn, audio,
               fallbackTimers>>

\* the fields of ui, by the names the source gives them
uiState    == ui.state
statusText == ui.statusText
statusDiv  == ui.statusDiv
isThinking == ui.isThinking
disabled   == ui.disabled

\* --------------------------------------------------------------- strings
RECURSIVE TrimStart(_)
TrimStart(s) == IF s # <<>> /\ Head(s) = " " THEN TrimStart(Tail(s)) ELSE s

RECURSIVE TrimEnd(_)
TrimEnd(s) ==
  IF s # <<>> /\ s[Len(s)] = " " THEN TrimEnd(SubSeq(s, 1, Len(s) - 1)) ELSE s

\* String.prototype.trim
Trim(s) == TrimEnd(TrimStart(s))

\* UI_STATE.<state>.text
StateText(state) == <<"state.text", state>>

\* customText || state.text
ShownText(state, customText) ==
  IF customText = NoText \/ customText = <<>> THEN StateText(state) ELSE customText

\* the string built in the catch block of submitTextQuery
Apology(reason) == <<"My apologies, Boss.", reason>>

\* a handleChatSubmission invocation: pc is the await it is suspended at, sid
\* the session_id of its request in flight, the other fields are its locals
\* (they die with the invocation)
FreeSub == [pc |-> "free", question |-> <<>>, source |-> "none",
            sid |-> 0, fullText |-> <<>>, textResponse |-> NoText]

DoneSub == [FreeSub EXCEPT !.pc = "done"]

\* ------------------------------------------------------- UI projection
Controls == {"chatInput", "chatSendBtn", "chatClearBtn"}

\* setInputLock(isLocked), text revision
setInputLock(u, isLocked) ==
  [u EXCEPT !.disabled = [c \in Controls |-> isLocked],
            !.isThinking = isLocked]

\* the argument updateUI passes to setInputLock, text revision
LockFor(state) == state = "THINKING"

\* updateUI(state, customText), text revision
updateUI_T(u, state, customText) ==
  setInputLock([u EXCEPT !.state = state,
                         !.statusText = ShownText(state, customText),
                         !.statusDiv = ShownText(state, customText)],
               LockFor(state))

\* updateUI(state, customText), voice revision: no control is touched
updateUI_V(u, state, customText) ==
  [u EXCEPT !.state = state,
            !.statusText = ShownText(state, customText),
            !.statusDiv = StateText(state)]

\* the page after DOMContentLoaded has run updateUI(UI_STATE.IDLE)
InitUI ==
  [state |-> "IDLE", statusText |-> StateText("IDLE"),
   statusDiv |-> StateText("IDLE"), isThinking |-> FALSE,
   disabled |-> [c \in Controls |-> FALSE]]

\* displayMessage(sender, text); id names the submission the node belongs to
displayMessage(h, sender, text, id) ==
  Append(h, [sender |-> sender, text |-> text, id |-> id])

\* jarvisMsg.innerHTML = ...: rewrites the node if it is still in the container
RenderStream(h, id, text) ==
  [k \in 1..Len(h) |->
     IF h[k].sender = "Jarvis" /\ h[k].id = id
       THEN [h[k] EXCEPT !.text = text] ELSE h[k]]

\* ---------------------------------------------------------- submissions
nAccepted == Cardinality({i \in SubIds : subs[i].pc # "free"})

\* handleChatSubmission has been entered and has not returned
Running(i) == subs[i].pc \notin {"free", "done"}

\* ------------------------------------------------------------------ Init
\* DOMContentLoaded without the timer test: setInterval is always called
StartPolling_Mutant(granted) == TRUE

\* DOMContentLoaded: if (hasPermission) setInterval(checkBackendStatus, 300)
StartPolling(granted) == granted

\* no run of the reading loop on its own
NoStream ==
  [chunks |-> <<>>, n |-> 0, pending |-> "none", fullText |-> <<>>,
   rendered |-> <<>>, result |-> NoText, pc |-> "off"]

\* ttsAudio before the first playAudio: paused, no handler set
NoAudio ==
  [paused |-> TRUE, playback |-> "none", cb |-> "none", owner |-> 0,
   calls |-> 0]

InitOf(r) ==
  /\ rev = r
  /\ currentSessionId = 0
  /\ ui = InitUI
  /\ chatVisible = TRUE
  /\ history = <<>>
  /\ subs = [i \in SubIds |-> FreeSub]
  /\ currentMode = "voice"
  /\ activePolls = 0
  /\ polls = [p \in PollIds |-> "free"]
  /\ hasPermission \in (IF r = "voice" THEN BOOLEAN ELSE {FALSE})
  /\ pollTimerOn = StartPolling(hasPermission)
  /\ audio = NoAudio
  /\ fallbackTimers = 0
  /\ lastOp = "DOMContentLoaded"

InitText  == InitOf("text") /\ stream = NoStream
InitVoice == InitOf("voice") /\ stream = NoStream

\* Date.now() never runs backwards: a reading is at least the reading the
\* current session id was built from
Clock == currentSessionId..MaxClock

\* =========================================================================
\* Text revision (renderer.js 1-163)
\* =========================================================================

\* the early return of the send-button listener
SendRefused_T(question) == question = <<>> \/ isThinking

\* handleChatSubmission up to the fetch inside submitTextQuery
handleChatSubmission_T(i, question) ==
  /\ history' = displayMessage(history, "Boss", question, i)
  /\ ui' = updateUI_T(ui, "THINKING", <<"Processing your query...">>)
  /\ subs' = [subs EXCEPT ![i] =
                [pc |-> "fetch", question |-> question, source |-> "text",
                 sid |-> currentSessionId, fullText |-> <<>>,
                 textResponse |-> NoText]]

\* click on the send button, or Enter in the chat input (which clicks it);
\* value is chatInput.value at that moment
SendClick_T(value) ==
  /\ rev = "text"
  /\ LET question == Trim(value) IN
       IF SendRefused_T(question)
         THEN /\ lastOp' = "send_refused"
              /\ UNCHANGED <<history, ui, subs>>
         ELSE /\ nAccepted < MaxSubmissions
              /\ handleChatSubmission_T(nAccepted + 1, question)
              /\ lastOp' = "send_accepted"
  /\ UNCHANGED <<setupVars, currentSessionId, chatVisible, voiceVars>>

\* the tail of handleChatSubmission: updateUI(IDLE), setInputLock(false)
FinishSubmission_T(u) ==
  setInputLock(updateUI_T(u, "IDLE", <<"Text Mode Active">>), FALSE)

\* fetch rejects, or the response is not ok: the catch block returns the
\* apology built from reason; handleChatSubmission never reads textResponse
\* and runs to its end
StreamFetchFail_T(i, reason) ==
  /\ rev = "text"
  /\ subs[i].pc = "fetch"
  /\ subs' = [subs EXCEPT ![i] = DoneSub]
  /\ ui' = FinishSubmission_T(ui)
  /\ lastOp' = "chat_failed_text"
  /\ UNCHANGED <<setupVars, currentSessionId, chatVisible,
                 history, voiceVars>>

\* response.ok: the reader is taken and the empty Jarvis node is appended
StreamFetchOk_T(i) ==
  /\ rev = "text"
  /\ subs[i].pc = "fetch"
  /\ subs' = [subs EXCEPT ![i].pc = "read", ![i].sid = 0]
  /\ history' = displayMessage(history, "Jarvis", <<>>, i)
  /\ lastOp' = "stream_open"
  /\ UNCHANGED <<setupVars, currentSessionId, ui, chatVisible, voiceVars>>

\* fullText += chunk, with the chunk put in front
Accumulate_Mutant(fullText, chunk) == chunk \o fullText

\* fullText += chunk
Accumulate(fullText, chunk) == fullText \o chunk

\* reader.read() yields a chunk
StreamChunk_T(i, chunk) ==
  /\ rev = "text"
  /\ subs[i].pc = "read"
  /\ Len(subs[i].fullText) < MaxChunks
  /\ LET fullText == Accumulate(subs[i].fullText, chunk) IN
       /\ subs' = [subs EXCEPT ![i].fullText = fullText]
       /\ history' = RenderStream(history, i, fullText)
  /\ lastOp' = "stream_chunk"
  /\ UNCHANGED <<setupVars, currentSessionId, ui, chatVisible, voiceVars>>

\* reader.read() yields done: fullText.trim() is returned and never read
StreamDone_T(i) ==
  /\ rev = "text"
  /\ subs[i].pc = "read"
  /\ subs' = [subs EXCEPT ![i] = DoneSub]
  /\ ui' = FinishSubmission_T(ui)
  /\ lastOp' = "stream_done"
  /\ UNCHANGED <<setupVars, currentSessionId, chatVisible,
                 history, voiceVars>>

\* reader.read() rejects: the catch block returns the apology, which
\* handleChatSubmission never reads
StreamReadFail_T(i) ==
  /\ rev = "text"
  /\ subs[i].pc = "read"
  /\ subs' = [subs EXCEPT ![i] = DoneSub]
  /\ ui' = FinishSubmission_T(ui)
  /\ lastOp' = "stream_failed"
  /\ UNCHANGED <<setupVars, currentSessionId, chatVisible,
                 history, voiceVars>>

\* ------------------------------------------- the reading loop on its own
\* The loop of submitTextQuery, run on a response body given as a whole:
\* stream.chunks are the Uint8Arrays reader.read() yields, in order, and
\* stream.n counts the ones read.  The bytes are "a", a blank, and C3 A9,
\* the two bytes of one character, which a chunk boundary may split.
ByteChunks ==
  {<<"a">>, <<" ">>, <<"C3">>, <<"A9">>, <<" ", "a">>, <<"a", "C3">>}

RECURSIVE Flatten(_)
Flatten(ss) == IF ss = <<>> THEN <<>> ELSE Head(ss) \o Flatten(Tail(ss))

\* TextDecoder("utf-8").decode(bytes, { stream: true }) on a decoder that
\* holds the lead byte `pending`: the text it returns and the lead byte it
\* holds back.  A byte that cannot be decoded gives U+FFFD.
RECURSIVE decode(_, _)
decode(pending, bytes) ==
  IF bytes = <<>> THEN [text |-> <<>>, pending |-> pending]
  ELSE LET b    == Head(bytes)
           out  == CASE pending = "C3" /\ b = "A9" -> <<"U+00E9">>
                     [] pending = "C3" /\ b = "C3" -> <<"U+FFFD">>
                     [] pending = "C3"             -> <<"U+FFFD", b>>
                     [] b = "C3"                   -> <<>>
                     [] b = "A9"                   -> <<"U+FFFD">>
                     [] OTHER                      -> <<b>>
           held == IF b = "C3" THEN "C3" ELSE "none"
           rest == decode(held, Tail(bytes))
       IN  [text |-> out \o rest.text, pending |-> rest.pending]

\* the text of a whole body: decode without the stream flag, which ends an
\* unfinished character with U+FFFD
TextOf(bytes) ==
  LET d == decode("none", bytes)
  IN  d.text \o (IF d.pending = "none" THEN <<>> ELSE <<"U+FFFD">>)

\* a body the server sends is UTF-8 text
WellFormed(bytes) ==
  \A k \in 1..Len(TextOf(bytes)) : TextOf(bytes)[k] # "U+FFFD"

Bodies ==
  {cs \in UNION {[1..n -> ByteChunks] : n \in 0..MaxStreamChunks} :
     WellFormed(Flatten(cs))}

\* jarvisMsg.innerHTML = `<strong>Jarvis:</strong> ${fullText}`
Markup(fullText) == <<"<strong>Jarvis:</strong> ">> \o fullText

InitStream ==
  /\ InitOf("text")
  /\ stream \in {[NoStream EXCEPT !.chunks = cs, !.pc = "read",
                                  !.rendered = Markup(<<>>)] : cs \in Bodies}

\* the variables the loop on its own leaves alone
pageVars == <<rev, currentSessionId, ui, chatVisible, history, subs,
              currentMode, activePolls, polls, hasPermission, pollTimerOn,
              audio, fallbackTimers, lastOp>>

\* one turn of the loop: reader.read() yields a chunk, which is decoded,
\* added to fullText and rendered
StreamRead ==
  /\ stream.pc = "read"
  /\ stream.n < Len(stream.chunks)
  /\ LET d        == decode(stream.pending, stream.chunks[stream.n + 1])
         fullText == Accumulate(stream.fullText, d.text)
     IN  stream' = [stream EXCEPT !.n = @ + 1,
                                  !.pending = d.pending,
                                  !.fullText = fullText,
                                  !.rendered = Markup(fullText)]
  /\ UNCHANGED pageVars

\* reader.read() yields done: return fullText.trim()
StreamReturn ==
  /\ stream.pc = "read"
  /\ stream.n = Len(stream.chunks)
  /\ stream' = [stream EXCEPT !.result = Trim(stream.fullText),
                               !.pc = "returned"]
  /\ UNCHANGED pageVars

StreamNext == StreamRead \/ StreamReturn

SpecStream == InitStream /\ [][StreamNext]_vars

\* clearChatHistory without its early return
ClearRefused_Mutant == FALSE

\* the early return of clearChatHistory
ClearRefused == isThinking

\* clearChatHistory with the new session id assigned before confirm(...) is
\* asked
clearChatHistory_Mutant(confirmed, now) ==
  /\ rev = "text"
  /\ IF ClearRefused
       THEN /\ lastOp' = "clear_refused"
            /\ UNCHANGED <<history, currentSessionId, ui>>
       ELSE IF confirmed
         THEN /\ history' = <<>>
              /\ currentSessionId' = now
              /\ ui' = updateUI_T(ui, "IDLE", <<"Session Cleared.">>)
              /\ lastOp' = "clear_done"
         ELSE /\ lastOp' = "clear_declined"
              /\ currentSessionId' = now
              /\ UNCHANGED <<history, ui>>
  /\ UNCHANGED <<setupVars, chatVisible, subs, voiceVars>>

\* clearChatHistory(); confirmed is the answer to confirm(...), now is what
\* Date.now() returns
clearChatHistory(confirmed, now) ==
  /\ rev = "text"
  /\ IF ClearRefused
       THEN /\ lastOp' = "clear_refused"
            /\ UNCHANGED <<history, currentSessionId, ui>>
       ELSE IF confirmed
         THEN /\ history' = <<>>
              /\ currentSessionId' = now
              /\ ui' = updateUI_T(ui, "IDLE", <<"Session Cleared.">>)
              /\ lastOp' = "clear_done"
         ELSE /\ lastOp' = "clear_declined"
              /\ UNCHANGED <<history, currentSessionId, ui>>
  /\ UNCHANGED <<setupVars, chatVisible, subs, voiceVars>>

\* click on the hub: toggles the chat box and calls updateUI(IDLE, ...)
HubClick_T ==
  /\ rev = "text"
  /\ chatVisible' = ~chatVisible
  /\ ui' = IF chatVisible'
             THEN updateUI_T(ui, "IDLE", NoText)
             ELSE updateUI_T(ui, "IDLE", <<"Chat hidden">>)
  /\ lastOp' = "hub"
  /\ UNCHANGED <<setupVars, currentSessionId, history, subs,
                 voiceVars>>

TextNext ==
  \/ \E value \in InputValues : SendClick_T(value)
  \/ \E i \in SubIds, reason \in Reasons :
       StreamFetchFail_T(i, reason)
  \/ \E i \in SubIds : StreamFetchOk_T(i)
  \/ \E i \in SubIds, chunk \in Chunks : StreamChunk_T(i, chunk)
  \/ \E i \in SubIds : StreamDone_T(i)
  \/ \E i \in SubIds : StreamReadFail_T(i)
  \/ \E confirmed \in BOOLEAN, now \in Clock : clearChatHistory(confirmed, now)
  \/ HubClick_T

\* =========================================================================
\* Voice revision (renderer.js 165-426)
\* =========================================================================

\* ttsAudio.onended / onerror call the callback playAudio was given
Callback(u, cb) ==
  CASE cb = "toQuerying" -> updateUI_V(u, "QUERYING", NoText)
    [] cb = "toIdle"     -> updateUI_V(u, "IDLE", NoText)
    [] OTHER             -> u

\* playAudio(url, callback): what it leaves in ttsAudio.  started is FALSE
\* when play() rejects at once (the promise's catch only logs); setting src
\* has then already stopped whatever was playing
\* calls counts the runs of this call's callback; the new onended and
\* onerror replace the handlers of the call before
playAudio(cb, owner, started) ==
  [paused |-> ~started,
   playback |-> IF started THEN "playing" ELSE "none",
   cb |-> cb, owner |-> owner, calls |-> 0]

\* playAudio: updateUI(UI_STATE.SPEAKING)
playAudioUI(u) == updateUI_V(u, "SPEAKING", NoText)

\* the playback reaches its end: paused becomes true, onended runs
AudioEnded ==
  /\ rev = "voice"
  /\ audio.playback = "playing"
  /\ audio' = [audio EXCEPT !.paused = TRUE, !.playback = "none",
                            !.calls = @ + 1]
  /\ ui' = Callback(updateUI_V(ui, "IDLE", NoText), audio.cb)
  /\ lastOp' = "audio_ended"
  /\ UNCHANGED <<setupVars, currentSessionId, chatVisible, history, subs,
                 currentMode, activePolls, polls, pollTimerOn, fallbackTimers>>

\* the playback fails: onerror runs.  Whether paused stays false after an
\* error is the engine's choice
AudioError(paused) ==
  /\ rev = "voice"
  /\ audio.playback = "playing"
  /\ audio' = [audio EXCEPT !.paused = paused, !.playback = "none",
                            !.calls = @ + 1]
  /\ ui' = Callback(updateUI_V(ui, "IDLE", <<"Audio Playback Error!">>),
                    audio.cb)
  /\ lastOp' = "audio_error"
  /\ UNCHANGED <<setupVars, currentSessionId, chatVisible, history, subs,
                 currentMode, activePolls, polls, pollTimerOn, fallbackTimers>>

\* handleChatSubmission(question, sourceMode) up to the fetch of /chat
handleChatSubmission_V(i, question, sourceMode) ==
  /\ currentMode' = sourceMode
  /\ subs' = [subs EXCEPT ![i] =
                [pc |-> "chat", question |-> question, source |-> sourceMode,
                 sid |-> currentSessionId, fullText |-> <<>>,
                 textResponse |-> NoText]]

\* click on the send button, or Enter in the chat input; value is
\* chatInput.value at that moment (the listener empties the input once
\* handleChatSubmission has returned)
SendClick_V(value) ==
  /\ rev = "voice"
  /\ LET question == Trim(value) IN
       IF question = <<>>
         THEN /\ lastOp' = "send_empty"
              /\ UNCHANGED <<ui, subs, currentMode>>
         ELSE /\ nAccepted < MaxSubmissions
              /\ ui' = updateUI_V(ui, "THINKING", <<"Sending Text Query...">>)
              /\ handleChatSubmission_V(nAccepted + 1, question, "text")
              /\ lastOp' = "send_accepted"
  /\ UNCHANGED <<setupVars, currentSessionId, chatVisible, history, activePolls,
                 polls, pollTimerOn, audio, fallbackTimers>>

\* submitTextQuery has returned textResponse: handleChatSubmission goes on,
\* to the fetch of /speak (voice) or to its end (text)
ChatReturn_V(i, textResponse) ==
  /\ rev = "voice"
  /\ subs[i].pc = "chat"
  /\ IF subs[i].source = "voice"
       THEN /\ ui' = updateUI_V(ui, "THINKING",
                                <<"Generating Jarvis's Reply...">>)
            /\ subs' = [subs EXCEPT ![i].pc = "speak",
                                    ![i].textResponse = textResponse,
                                    ![i].sid = currentSessionId]
       ELSE /\ ui' = [updateUI_V(ui, "IDLE", <<"Text Mode Active">>)
                        EXCEPT !.statusDiv = textResponse]
            /\ subs' = [subs EXCEPT ![i] = DoneSub]
  /\ UNCHANGED <<setupVars, currentSessionId, chatVisible, history,
                 voiceVars>>

\* /chat answers with {answer}
ChatOk_V(i) ==
  /\ ChatReturn_V(i, <<"answer">>)
  /\ lastOp' = (IF subs[i].source = "voice" THEN "chat_ok_voice"
                                            ELSE "chat_ok_text")

\* fetch rejects, the status is not ok, or the body is not JSON
ChatFail_V(i, reason) ==
  /\ ChatReturn_V(i, Apology(reason))
  /\ lastOp' = (IF subs[i].source = "voice" THEN "chat_failed_voice"
                                            ELSE "chat_failed_text")

\* /speak answers with {audio_url}: playAudio(audioUrl, () => updateUI(IDLE))
SpeakOk_V(i, started) ==
  /\ rev = "voice"
  /\ subs[i].pc = "speak"
  /\ audio' = playAudio("toIdle", i, started)
  /\ ui' = playAudioUI(ui)
  /\ subs' = [subs EXCEPT ![i] = DoneSub]
  /\ lastOp' = (IF started THEN "speak_ok" ELSE "speak_ok_play_rejected")
  /\ UNCHANGED <<setupVars, currentSessionId, chatVisible, history, currentMode,
                 activePolls, polls, pollTimerOn, fallbackTimers>>

\* the failure branch calling updateUI(UI_STATE.IDLE) without the answer
SpeakFail_V_Mutant(i) ==
  /\ rev = "voice"
  /\ subs[i].pc = "speak"
  /\ ui' = updateUI_V(ui, "IDLE", NoText)
  /\ fallbackTimers' = fallbackTimers + 1
  /\ subs' = [subs EXCEPT ![i] = DoneSub]
  /\ lastOp' = "speak_failed"
  /\ UNCHANGED <<setupVars, currentSessionId, chatVisible, history, currentMode,
                 activePolls, polls, pollTimerOn, audio>>

\* getAudioURL returns null: the text is shown and a 3 s timer is set
SpeakFail_V(i) ==
  /\ rev = "voice"
  /\ subs[i].pc = "speak"
  /\ ui' = updateUI_V(ui, "IDLE", subs[i].textResponse)
  /\ fallbackTimers' = fallbackTimers + 1
  /\ subs' = [subs EXCEPT ![i] = DoneSub]
  /\ lastOp' = "speak_failed"
  /\ UNCHANGED <<setupVars, currentSessionId, chatVisible, history, currentMode,
                 activePolls, polls, pollTimerOn, audio>>

\* setTimeout(() => updateUI(UI_STATE.IDLE), 3000) fires
FallbackTimer ==
  /\ rev = "voice"
  /\ fallbackTimers > 0
  /\ fallbackTimers' = fallbackTimers - 1
  /\ ui' = updateUI_V(ui, "IDLE", NoText)
  /\ lastOp' = "fallback_timer"
  /\ UNCHANGED <<setupVars, currentSessionId, chatVisible, history, subs,
                 currentMode, activePolls, polls, pollTimerOn, audio>>

\* the guard with the comparison off by one
PollSkipped_Mutant ==
  activePolls > MAX_CONCURRENT_POLLS \/ audio.paused = FALSE

\* the guard of checkBackendStatus
PollSkipped == activePolls >= MAX_CONCURRENT_POLLS \/ audio.paused = FALSE

FreePolls == {p \in PollIds : polls[p] = "free"}

\* a tick of setInterval(checkBackendStatus, POLLING_INTERVAL), up to the
\* fetch of /get_handshake_reply
checkBackendStatus ==
  /\ rev = "voice"
  /\ pollTimerOn
  /\ IF PollSkipped
       THEN /\ lastOp' = "tick_skipped"
            /\ UNCHANGED <<activePolls, polls>>
       ELSE /\ FreePolls # {}
            /\ LET p == CHOOSE q \in FreePolls : \A r \in FreePolls : q <= r IN
                 polls' = [polls EXCEPT ![p] = "handshake"]
            /\ activePolls' = activePolls + 1
            /\ lastOp' = "tick_started"
  /\ UNCHANGED <<setupVars, currentSessionId, ui, chatVisible, history, subs,
                 currentMode, pollTimerOn, audio, fallbackTimers>>

\* a cycle that ends without the finally block
ReleasePoll_Mutant(p) ==
  /\ activePolls' = activePolls
  /\ polls' = [polls EXCEPT ![p] = "free"]

\* the finally block
ReleasePoll(p) ==
  /\ activePolls' = activePolls - 1
  /\ polls' = [polls EXCEPT ![p] = "free"]

\* the handshake branch without its return: the cycle goes on to
\* /get_voice_query
HandshakeReady_Mutant(p, started) ==
  /\ rev = "voice"
  /\ polls[p] = "handshake"
  /\ audio' = playAudio("toQuerying", 0, started)
  /\ ui' = playAudioUI(updateUI_V(ui, "HANDSHAKE", NoText))
  /\ polls' = [polls EXCEPT ![p] = "query"]
  /\ lastOp' = (IF started THEN "handshake_ready"
                            ELSE "handshake_ready_play_rejected")
  /\ UNCHANGED <<setupVars, currentSessionId, chatVisible, history, subs,
                 currentMode, activePolls, pollTimerOn, fallbackTimers>>

\* /get_handshake_reply answers ready with an audio_url
HandshakeReady(p, started) ==
  /\ rev = "voice"
  /\ polls[p] = "handshake"
  /\ audio' = playAudio("toQuerying", 0, started)
  /\ ui' = playAudioUI(updateUI_V(ui, "HANDSHAKE", NoText))
  /\ ReleasePoll(p)
  /\ lastOp' = (IF started THEN "handshake_ready"
                            ELSE "handshake_ready_play_rejected")
  /\ UNCHANGED <<setupVars, currentSessionId, chatVisible, history, subs,
                 currentMode, pollTimerOn, fallbackTimers>>

\* /get_handshake_reply answers anything else: /get_voice_query is fetched
HandshakeNotReady(p) ==
  /\ rev = "voice"
  /\ polls[p] = "handshake"
  /\ polls' = [polls EXCEPT ![p] = "query"]
  /\ lastOp' = "handshake_not_ready"
  /\ UNCHANGED <<setupVars, currentSessionId, ui, chatVisible, history, subs,
                 currentMode, activePolls, pollTimerOn, audio, fallbackTimers>>

\* /get_voice_query answers ready with a query
QueryReady(p) ==
  /\ rev = "voice"
  /\ polls[p] = "query"
  /\ nAccepted < MaxSubmissions
  /\ ui' = updateUI_V(ui, "THINKING", <<"Query: ", "a">>)
  /\ handleChatSubmission_V(nAccepted + 1, <<"a">>, "voice")
  /\ ReleasePoll(p)
  /\ lastOp' = "query_ready"
  /\ UNCHANGED <<setupVars, currentSessionId, chatVisible, history, pollTimerOn,
                 audio, fallbackTimers>>

\* /get_voice_query answers anything else
QueryNotReady(p) ==
  /\ rev = "voice"
  /\ polls[p] = "query"
  /\ ReleasePoll(p)
  /\ lastOp' = "query_not_ready"
  /\ UNCHANGED <<setupVars, currentSessionId, ui, chatVisible, history, subs,
                 currentMode, pollTimerOn, audio, fallbackTimers>>

\* either fetch rejects or its body is not JSON: the catch block
PollFail(p) ==
  /\ rev = "voice"
  /\ polls[p] \in {"handshake", "query"}
  /\ ui' = updateUI_V(ui, "IDLE", <<"API Error">>)
  /\ ReleasePoll(p)
  /\ lastOp' = "poll_failed"
  /\ UNCHANGED <<setupVars, currentSessionId, chatVisible, history, subs,
                 currentMode, pollTimerOn, audio, fallbackTimers>>

\* click on the hub
HubClick_V ==
  /\ rev = "voice"
  /\ chatVisible' = ~chatVisible
  /\ ui' = IF chatVisible'
             THEN updateUI_V(ui, "IDLE", <<"Text Mode Active">>)
             ELSE updateUI_V(ui, "IDLE", <<"Listening for 'Hey Jarvis'">>)
  /\ lastOp' = "hub"
  /\ UNCHANGED <<setupVars, currentSessionId, history, subs, voiceVars>>

VoiceNext ==
  \/ \E value \in InputValues : SendClick_V(value)
  \/ \E i \in SubIds : ChatOk_V(i)
  \/ \E i \in SubIds, reason \in Reasons : ChatFail_V(i, reason)
  \/ \E i \in SubIds, started \in BOOLEAN : SpeakOk_V(i, started)
  \/ \E i \in SubIds : SpeakFail_V(i)
  \/ FallbackTimer
  \/ AudioEnded
  \/ \E paused \in BOOLEAN : AudioError(paused)
  \/ checkBackendStatus
  \/ \E p \in PollIds, started \in BOOLEAN : HandshakeReady(p, started)
  \/ \E p \in PollIds : HandshakeNotReady(p)
  \/ \E p \in PollIds : QueryReady(p)
  \/ \E p \in PollIds : QueryNotReady(p)
  \/ \E p \in PollIds : PollFail(p)
  \/ HubClick_V

SpecText  == InitText /\ [][TextNext]_vars
SpecVoice == InitVoice /\ [][VoiceNext]_vars

\* both revisions of the page: the one with the Clear button and the one
\* whose submissions send two requests
PageNext == TextNext \/ VoiceNext

SpecPage == (InitText \/ InitVoice) /\ [][PageNext]_vars

\* The event loop delivers every response, media event and timer callback:
\* a request in flight is eventually answered or fails, a playback that
\* started eventually ends or fails, a pending timeout eventually fires and
\* the interval timer keeps ticking.  The user owes nothing.
ChatResponse ==
  \/ \E i \in SubIds : ChatOk_V(i)
  \/ \E i \in SubIds, reason \in Reasons : ChatFail_V(i, reason)

StreamResponse ==
  \/ \E i \in SubIds, reason \in Reasons :
       StreamFetchFail_T(i, reason)
  \/ \E i \in SubIds : StreamFetchOk_T(i)
  \/ \E i \in SubIds, chunk \in Chunks : StreamChunk_T(i, chunk)
  \/ \E i \in SubIds : StreamDone_T(i)
  \/ \E i \in SubIds : StreamReadFail_T(i)

SpeakResponse ==
  \/ \E i \in SubIds, started \in BOOLEAN : SpeakOk_V(i, started)
  \/ \E i \in SubIds : SpeakFail_V(i)

PollResponse ==
  \/ \E p \in PollIds, started \in BOOLEAN : HandshakeReady(p, started)
  \/ \E p \in PollIds : HandshakeNotReady(p)
  \/ \E p \in PollIds : QueryReady(p)
  \/ \E p \in PollIds : QueryNotReady(p)
  \/ \E p \in PollIds : PollFail(p)

MediaEvent == AudioEnded \/ \E paused \in BOOLEAN : AudioError(paused)

Fairness ==
  /\ WF_vars(ChatResponse)
  /\ WF_vars(SpeakResponse)
  /\ WF_vars(PollResponse)
  /\ WF_vars(MediaEvent)
  /\ WF_vars(FallbackTimer)
  /\ WF_vars(checkBackendStatus)

FairSpecText  == SpecText /\ WF_vars(StreamResponse)
FairSpecVoice == SpecVoice /\ Fairness

\* =========================================================================
\* Properties
\* =========================================================================

PollsInFlight == {p \in PollIds : polls[p] # "free"}

\* no control is disabled and the lock flag is down
Unlocked == ~isThinking /\ \A c \in Controls : ~disabled[c]

Busy == uiState \in {"THINKING", "SPEAKING"}

\* onended and onerror call updateUI(IDLE) before the callback moves on
PassedIdle == uiState = "IDLE" \/ lastOp \in {"audio_ended", "audio_error"}

\* a submission is in flight until handleChatSubmission has returned and the
\* playback it started, if any, is over
InFlight(i) ==
  Running(i) \/ (audio.playback = "playing" /\ audio.owner = i)

SendOps  == {"send_refused", "send_empty", "send_accepted"}
ClearOps == {"clear_refused", "clear_declined", "clear_done"}
TickOps  == {"tick_skipped", "tick_started"}

\* C1: the number of poll cycles past the guard and not yet finished is
\* activePolls, and it is always 0 or 1 (never above MAX_CONCURRENT_POLLS,
\* never negative).
C1_ActivePollsAtMostOne ==
  /\ activePolls = Cardinality(PollsInFlight)
  /\ activePolls \in {0, 1}
  /\ activePolls <= MAX_CONCURRENT_POLLS
  /\ activePolls >= 0

\* a tick arrived while a cycle was in flight and was turned away
C1_Witness ==
  /\ lastOp = "tick_skipped"
  /\ activePolls = 1
  /\ audio.paused

\* C2: every handleChatSubmission invocation is eventually followed by a
\* state where InteractionState is Idle and input is unlocked, given that
\* every request is answered and every playback ends, fails or is rejected.
C2_SubmissionEndsIdle ==
  \A i \in SubIds : Running(i) ~> (PassedIdle /\ Unlocked)

\* C3: at most one submission is in flight at any time.
C3_AtMostOneSubmission ==
  Cardinality({i \in SubIds : InFlight(i)}) <= 1

\* C4: the input controls are disabled if and only if InteractionState is
\* Thinking or Speaking.
C4_ControlsDisabledIffBusy ==
  \A c \in Controls : disabled[c] <=> Busy

\* the apology is on the page: a Jarvis node of the chat history, or the
\* status line
Displayed(text) ==
  \/ \E k \in 1..Len(history) :
       history[k].sender = "Jarvis" /\ history[k].text = text
  \/ statusText = text
  \/ statusDiv = text

\* C5: when a submission ends on a failed /chat or /stream_chat request, the
\* apology with the failure reason is displayed as the assistant's message
\* and the controller is Idle with input unlocked.
C5_FailureDisplayed ==
  lastOp \in {"chat_failed_text", "stream_failed"}
    => /\ \E reason \in Reasons \cup {"stream"} : Displayed(Apology(reason))
       /\ uiState = "IDLE"
       /\ Unlocked

\* C6: clearChatHistory invoked while isThinking is true leaves the chat
\* history, the session id and InteractionState unchanged.
C6_ClearRefusedWhileLocked ==
  [][(isThinking /\ lastOp' \in ClearOps)
       => (/\ lastOp' = "clear_refused"
           /\ history' = history
           /\ currentSessionId' = currentSessionId
           /\ uiState' = uiState)]_vars

\* a clear was refused with messages on the page
C6_Witness ==
  /\ lastOp = "clear_refused"
  /\ isThinking
  /\ history # <<>>

\* C7: a clearChatHistory that goes through empties the chat history, gives
\* a session id different from the previous one and sets InteractionState to
\* Idle, in one step.
C7_ClearGivesNewSession ==
  [][(~isThinking /\ lastOp' = "clear_done")
       => (/\ history' = <<>>
           /\ currentSessionId' # currentSessionId
           /\ uiState' = "IDLE")]_vars

\* C8: a send attempt made while input is locked issues no request, appends
\* no message and leaves the lock, the state and the session id unchanged.
C8_SendRefusedWhileLocked ==
  [][((isThinking \/ Busy) /\ lastOp' \in SendOps)
       => (/\ subs' = subs
           /\ history' = history
           /\ ui' = ui
           /\ currentSessionId' = currentSessionId)]_vars

\* C9: a checkBackendStatus tick that fires while a submission is in flight
\* or input is locked returns without fetching.
C9_NoPollWhileSubmitting ==
  [][(((\E i \in SubIds : Running(i)) \/ isThinking)
        /\ lastOp' \in TickOps)
       => (lastOp' = "tick_skipped" /\ polls' = polls)]_vars

\* C10: while audio is playing no tick starts a poll cycle, and no poll cycle
\* in flight starts the handshake playback or hands off a voice query.
C10_NoPollActivityDuringPlayback ==
  [][audio.playback = "playing"
       => lastOp' \notin {"tick_started", "handshake_ready",
                             "handshake_ready_play_rejected",
                             "query_ready"}]_vars

HandshakeOps == {"handshake_ready", "handshake_ready_play_rejected"}

C12_PollFailureIdleAndTokenReleased ==
  [][/\ lastOp' = "poll_failed"
          => (/\ uiState' = "IDLE"
              /\ statusText' = <<"API Error">>
              /\ \E p \in PollIds : polls[p] # "free" /\ polls'[p] = "free")
     /\ \A p \in PollIds :
          (polls[p] # "free" /\ polls'[p] = "free")
            => (/\ activePolls' = activePolls - 1
                /\ lastOp' \in HandshakeOps \cup
                     {"query_ready", "query_not_ready", "poll_failed"})
     /\ (\A p \in PollIds : polls'[p] = "free")
          => (activePolls' = 0 /\ activePolls' < MAX_CONCURRENT_POLLS)]_vars

\* a cycle failed and the next tick got past the guard
C12_Witness ==
  /\ lastOp = "tick_started"
  /\ statusText = <<"API Error">>
  /\ uiState = "IDLE"
  /\ activePolls = 1

PlayOps == HandshakeOps \cup {"speak_ok", "speak_ok_play_rejected"}

\* C13: every playAudio call sets InteractionState to Speaking and runs its
\* callback exactly once: never twice, and never zero times, so the callback
\* of a call has run by the time the next call replaces the handlers, and
\* the callback of every call runs in the end.
C13_CallbackExactlyOnce ==
  /\ [](audio.calls <= 1)
  /\ [][lastOp' \in PlayOps
          => (/\ uiState' = "SPEAKING"
              /\ audio'.cb # "none"
              /\ audio.cb # "none" => audio.calls = 1)]_vars
  /\ (audio.cb # "none" /\ audio.calls = 0) ~> (audio.calls = 1)

\* C14: when /speak fails for a voice submission that holds its answer text,
\* the step that handles the failure shows that text in the status line,
\* starts no playback (ttsAudio is left as it was) and sets InteractionState
\* to Idle at once.
C14_SpeakFailureShowsText ==
  [][\A i \in SubIds :
       (subs[i].pc = "speak" /\ lastOp' = "speak_failed"
          /\ subs'[i].pc # "speak")
         => (/\ subs[i].source = "voice"
             /\ subs[i].textResponse # NoText
             /\ statusText' = subs[i].textResponse
             /\ audio' = audio
             /\ uiState' = "IDLE"
             /\ subs'[i].pc = "done")]_vars

\* /speak has just failed: the answer is in the status line, nothing plays
C14_Witness ==
  /\ lastOp = "speak_failed"
  /\ statusText = <<"answer">>
  /\ uiState = "IDLE"
  /\ audio = NoAudio
  /\ fallbackTimers = 1

\* s is a prefix of t
IsPrefix(s, t) == Len(s) <= Len(t) /\ SubSeq(t, 1, Len(s)) = s

\* C15: in the reading loop of submitTextQuery, what is rendered after one
\* chunk is a prefix of what is rendered after the next, and the value
\* returned is the trimmed text of all chunks joined in arrival order.
C15_StreamPrefixStable ==
  [][/\ IsPrefix(stream.rendered, stream'.rendered)
     /\ stream'.pc = "returned"
          => stream'.result = Trim(TextOf(Flatten(stream'.chunks)))]_vars

\* three chunks were read, one boundary split a character, and trim() cut
\* something off
C15_Witness ==
  /\ stream.pc = "returned"
  /\ stream.n = 3
  /\ \E k \in 1..2 : stream.chunks[k][Len(stream.chunks[k])] = "C3"
  /\ stream.result # stream.fullText
  /\ stream.result # <<>>

\* C16: the voice path takes the states in order: a ready handshake found in
\* Idle leaves InteractionState at Handshake, the end of the handshake audio
\* leaves it at Querying, a ready voice query leaves it at Thinking, the
\* start of the answer's audio leaves it at Speaking, and the end or error
\* of that audio leaves it at Idle.
C16_VoicePathStateOrder ==
  [][/\ (uiState = "IDLE" /\ lastOp' \in HandshakeOps)
          => uiState' = "HANDSHAKE"
     /\ (audio.cb = "toQuerying" /\ lastOp' = "audio_ended")
          => uiState' = "QUERYING"
     /\ lastOp' = "query_ready" => uiState' = "THINKING"
     /\ lastOp' \in {"speak_ok", "speak_ok_play_rejected"}
          => uiState' = "SPEAKING"
     /\ (audio.cb = "toIdle" /\ lastOp' \in {"audio_ended", "audio_error"})
          => uiState' = "IDLE"]_vars

\* C17: a submission typed in the chat box never goes to the /speak stage
\* and never touches ttsAudio, and the step that ends it has the answer on
\* the page (the streamed Jarvis message, or the status display of the voice
\* revision; the apology counts as the answer of a failed request) and
\* leaves InteractionState Idle with input unlocked.
C17_TextSubmissionSilent ==
  [][\A i \in SubIds :
       (subs[i].source = "text" /\ Running(i) /\ subs'[i] # subs[i])
         => LET failed  == lastOp' \in {"chat_failed_text", "stream_failed"}
                answers ==
                  IF failed
                    THEN {Apology(r) : r \in Reasons \cup {"stream"}}
                    ELSE IF rev = "text" THEN {subs[i].fullText}
                                         ELSE {<<"answer">>}
                shown   ==
                  IF rev = "text"
                    THEN \E k \in 1..Len(history') :
                           /\ history'[k].sender = "Jarvis"
                           /\ history'[k].id = i
                           /\ history'[k].text \in answers
                    ELSE statusDiv' \in answers
            IN  /\ subs'[i].pc # "speak"
                /\ audio' = audio
                /\ subs'[i].pc = "done"
                     => (shown /\ uiState' = "IDLE" /\ Unlocked')]_vars

\* C18: for every text submission the user's message is in the history
\* before the assistant's message for the same question, the assistant's
\* message comes directly after it, and the submission ends in Idle.
C18_AnswerFollowsQuestion ==
  /\ \A k \in 1..Len(history) :
       history[k].sender = "Jarvis"
         => (/\ k > 1
             /\ history[k - 1].sender = "Boss"
             /\ history[k - 1].id = history[k].id)
  /\ lastOp \in {"stream_done", "stream_failed", "chat_failed_text"}
       => uiState = "IDLE"

PollOps ==
  TickOps \cup HandshakeOps \cup
    {"handshake_not_ready", "query_ready", "query_not_ready", "poll_failed"}

\* C19: when microphone permission was refused at startup the poll timer is
\* not running, no poll cycle ever starts (no request to
\* /get_handshake_reply or /get_voice_query is in flight or answered), and a
\* question sent from the chat box is still taken up and its answer shown.
C19_NoPermissionNoPolling ==
  ~hasPermission
    => /\ ~pollTimerOn
       /\ PollsInFlight = {}
       /\ activePolls = 0
       /\ lastOp \notin PollOps
       /\ \A i \in SubIds : subs[i].source # "voice"
       /\ lastOp = "send_accepted"
            => \E i \in SubIds : subs[i].pc = "chat" /\ subs[i].source = "text"
       /\ lastOp = "chat_ok_text"
            => (statusDiv = <<"answer">> /\ uiState = "IDLE")

\* without permission, a typed question has been answered
C19_Witness ==
  /\ ~hasPermission
  /\ lastOp = "chat_ok_text"
  /\ statusDiv = <<"answer">>
  /\ \E i \in SubIds : subs[i].pc = "done"

\* C20: in the voice revision, whenever audio is playing InteractionState is
\* Speaking: from playAudio until the playback ends or errors no text send,
\* hub click, failing poll or fallback timer sets another state.
C20_SpeakingWhilePlaying ==
  audio.playback = "playing" => uiState = "SPEAKING"

\* C21: currentSessionId changes only in a confirmed clearChatHistory: no
\* send, stream step, poll step, media event, timer, hub click, refused or
\* declined clear changes it.  The first request of a submission carries the
\* current session id, and the /speak request that follows /chat carries the
\* same one.
C21_SessionIdChangesOnlyOnClear ==
  [][/\ currentSessionId' # currentSessionId
          => (lastOp' = "clear_done" /\ ~isThinking /\ rev = "text")
     /\ \A i \in SubIds :
          /\ (subs[i].pc = "free" /\ subs'[i].pc # "free")
               => subs'[i].sid = currentSessionId
          /\ (subs[i].pc = "chat" /\ subs'[i].pc = "speak")
               => (/\ subs'[i].sid = subs[i].sid
                   /\ subs'[i].sid = currentSessionId')]_vars

\* a confirmed clear has given a new session id while a request sent under
\* the old one is still open
C21_Witness ==
  /\ lastOp = "clear_done"
  /\ currentSessionId # 0
  /\ \E i \in SubIds : subs[i].pc = "fetch" /\ subs[i].sid # currentSessionId

====
